---- MODULE Spec2Model ----
(***************************************************************************)
(* Spatial hash grid (spatial-hash-grid.js), cylinder-vs-box collision     *)
(* resolver (CollisionSystem in collision-system.js), and the application  *)
(* that drives them: level loading, the fixed-step animation loop and the  *)
(* first-person controller (threejsdemo, FirstPersonCamera); and the       *)
(* resource cache (ResourceManager).                                       *)
(*                                                                         *)
(* Numbers.  The program computes on JavaScript numbers.  The model keeps  *)
(* every coordinate as an integer count of thousandths of a world unit     *)
(* (Scale), so that the 0.001 the grid subtracts from the world size is    *)
(* exactly one unit, Math.floor(a / b) is a \div b, and the comparisons    *)
(* distance < radius, distance > 0, distance === 0 come out exactly as     *)
(* in real arithmetic.  Math.sqrt and the division of normalize() are      *)
(* rounded to that resolution, which is why the geometric statements carry *)
(* a tolerance (Tolerance) in the same units.                              *)
(*                                                                         *)
(* Collections.  A JavaScript Set or Array iterates in insertion order;    *)
(* both are sequences here, a Set being a sequence without repetition.     *)
(* A Map is a function with the value Undefined for an absent key.         *)
(***************************************************************************)
EXTENDS Integers, Sequences, FiniteSets, TLC

VARIABLES
    cellSize,       \* SpatialHashGrid.cellSize
    worldSizeX,     \* SpatialHashGrid.worldSizeX
    worldSizeZ,     \* SpatialHashGrid.worldSizeZ
    numCellsX,      \* SpatialHashGrid.numCellsX
    numCellsZ,      \* SpatialHashGrid.numCellsZ
    cells,          \* SpatialHashGrid.cells: cell index -> Set of objects
    objectCells,    \* SpatialHashGrid.objectCells: object -> cell index
    insertedAt,     \* object -> the position it was last inserted at, for a tracked
                    \* object (history: the grid itself keeps the cell only)
    gridCall,       \* the last call made on the grid, with what it returned
    colliders,      \* CollisionSystem.colliders
    playerCollider, \* CollisionSystem.playerCollider
    spatialGrid,    \* CollisionSystem.spatialGrid
    fresh,          \* a second, newly constructed CollisionSystem (see Clear)
    phase,          \* what has been done to the first one since construction
    playerPosition, \* argument of checkCollisions
    proposedPosition, \* argument of checkCollisions
    call,           \* the last checkCollisions call, with what it returned
    currentLevel,   \* threejsdemo.currentLevel: the level loaded, or NoLevel
    loads,          \* the loadLevel calls made so far, each with where it stands
    finished,       \* the loadLevel calls that have returned, in that order
    previousRAF,    \* threejsdemo.previousRAF: a time, or NoTime for null
    rafPending,     \* callbacks registered with requestAnimationFrame
    timeAccumulator, \* threejsdemo.timeAccumulator
    pointerLocked,  \* whether document.pointerLockElement is set
    translation,    \* FirstPersonCamera.translation_
    console,        \* the messages written with console.error
    frame,          \* the last animation frame, with what it did
    instance,       \* ResourceManager.instance: an object, or Undefined
    managers,       \* what each new ResourceManager() has evaluated to, in order
    geometries,     \* ResourceManager.geometries: key -> resource
    materials,      \* ResourceManager.materials
    textures,       \* ResourceManager.textures
    nextObject,     \* how many objects have been allocated
    disposed,       \* the resources whose dispose() has been called
    createdSince,   \* (type, key) -> create functions invoked since the last
                    \* dispose() (history)
    returnedSince,  \* (type, key) -> what get calls that passed a create
                    \* function have returned since the last dispose() (history)
    cacheCall       \* the last call made on the resource manager

gridVars == <<cellSize, worldSizeX, worldSizeZ, numCellsX, numCellsZ, cells, objectCells,
              insertedAt>>
gridShape == <<cellSize, worldSizeX, worldSizeZ, numCellsX, numCellsZ>>
systemVars == <<colliders, playerCollider, spatialGrid>>
inputVars == <<playerPosition, proposedPosition>>
vars == <<cellSize, worldSizeX, worldSizeZ, numCellsX, numCellsZ, cells, objectCells,
          insertedAt, gridCall, colliders, playerCollider, spatialGrid,
          fresh, phase, playerPosition, proposedPosition, call,
          currentLevel, loads, finished, previousRAF, rafPending, timeAccumulator,
          pointerLocked, translation, console, frame,
          instance, managers, geometries, materials, textures, nextObject, disposed,
          createdSince, returnedSince, cacheCall>>
appVars == <<currentLevel, loads, finished, previousRAF, rafPending, timeAccumulator,
             pointerLocked, translation, console, frame>>
probeVars == <<gridCall, fresh, phase, playerPosition, proposedPosition, call>>
cacheVars == <<instance, managers, geometries, materials, textures, nextObject, disposed,
               createdSince, returnedSince, cacheCall>>

----------------------------------------------------------------------------
(* Numbers and collections *)

\* One world unit, in model units (0.001 of a world unit each).
Scale == 1000

\* The 0.001 that getCellIndex and findNearbyObjects subtract from the world size.
Epsilon == 1

\* undefined, as a Map.get result or a cell index
Undefined == -1

\* null, where an object may be referenced
Null == [null |-> TRUE]

Max(a, b) == IF a >= b THEN a ELSE b
Min(a, b) == IF a <= b THEN a ELSE b
Abs(a) == IF a < 0 THEN -a ELSE a

\* a / b rounded to the nearest unit, for b > 0
RoundDiv(a, b) == (2 * a + b) \div (2 * b)

RECURSIVE SqrtBetween(_, _, _)
\* the largest r in lo..hi with r * r <= n
SqrtBetween(n, lo, hi) ==
    IF lo >= hi
    THEN lo
    ELSE LET mid == (lo + hi + 1) \div 2
         IN  IF mid * mid <= n THEN SqrtBetween(n, mid, hi) ELSE SqrtBetween(n, lo, mid - 1)

\* Math.sqrt, to the unit below
Sqrt(n) == SqrtBetween(n, 0, 46340)

\* Math.ceil(a / b) for b > 0
Ceil(a, b) == -((-a) \div b)

Range(s) == {s[i] : i \in 1..Len(s)}

\* Set.prototype.add: an element already present keeps its place
SetAdd(s, e) == IF e \in Range(s) THEN s ELSE Append(s, e)

\* Set.prototype.delete
SetDelete(s, e) == SelectSeq(s, LAMBDA v : v # e)

RECURSIVE SetAddAll(_, _)
\* for (const obj of src) dst.add(obj)
SetAddAll(dst, src) ==
    IF src = <<>> THEN dst ELSE SetAddAll(SetAdd(dst, Head(src)), Tail(src))

----------------------------------------------------------------------------
(* Levels *)

Vector3(x, y, z) == [x |-> x, y |-> y, z |-> z]

\* The levels.  A level file holds a grid of characters; generateGrid adds a
\* wall block for every '-', and for every walkable square a wall section on
\* each side that borders a '-' or the edge of the grid, and a marker on the
\* start and on the goal square.
corridorWidth == 2000
roomHeight == 3000
wallThickness == 200

\* createWallBlock(levelGroup, x, z): BoxGeometry(2, 3, 2)
wallBlock(name, x, z) ==
    [mesh |-> name,
     position |-> Vector3(x * corridorWidth, roomHeight \div 2, z * corridorWidth),
     size |-> Vector3(corridorWidth, roomHeight, corridorWidth),
     inGrid |-> TRUE]

\* createWall(levelGroup, x, z, direction), direction 0 north, 1 east, 2 south,
\* 3 west: BoxGeometry(2, 3, 0.2) scaled by (1, 1, 0.1) or by (0.1, 1, 1)
wallSection(name, x, z, direction) ==
    LET posX == x * corridorWidth
                + (IF direction = 3 THEN -(corridorWidth \div 2)
                   ELSE IF direction = 1 THEN corridorWidth \div 2 ELSE 0)
        posZ == z * corridorWidth
                + (IF direction = 0 THEN -(corridorWidth \div 2)
                   ELSE IF direction = 2 THEN corridorWidth \div 2 ELSE 0)
    IN  [mesh |-> name,
         position |-> Vector3(posX, roomHeight \div 2, posZ),
         size |-> IF direction \in {0, 2}
                  THEN Vector3(corridorWidth, roomHeight, wallThickness \div 10)
                  ELSE Vector3(corridorWidth \div 10, roomHeight, wallThickness),
         inGrid |-> TRUE]

\* addStartPosition: CylinderGeometry(0.2, 0.2, 0.1), not put in the grid
startMarker(name, x, z) ==
    [mesh |-> name,
     position |-> Vector3(x * corridorWidth, 50, z * corridorWidth),
     size |-> Vector3(400, 100, 400),
     inGrid |-> FALSE]

\* addGoalPosition: BoxGeometry(1, 1, 1), not put in the grid
goalMarker(name, x, z) ==
    [mesh |-> name,
     position |-> Vector3(x * corridorWidth, Scale, z * corridorWidth),
     size |-> Vector3(Scale, Scale, Scale),
     inGrid |-> FALSE]

\* No level: threejsdemo.currentLevel before the first level has loaded.
NoLevel == 0

\* The level files: level 1 has the grid ["SE"], level 2 the grid ["-", "S"].
Levels == {1, 2}

\* The size of the grid of a level, in squares: <<columns, rows>>.
LevelSquares(level) == IF level = 1 THEN <<2, 1>> ELSE <<1, 2>>

\* The meshes generateGrid adds to the level group besides floor and ceiling,
\* in the order it adds them (the order levelGroup.traverse visits them in).
LevelMeshes(level) ==
    IF level = 1
    THEN <<wallSection("L1.north00", 0, 0, 0), wallSection("L1.south00", 0, 0, 2),
           wallSection("L1.west00", 0, 0, 3), startMarker("L1.start", 0, 0),
           wallSection("L1.north10", 1, 0, 0), wallSection("L1.east10", 1, 0, 1),
           wallSection("L1.south10", 1, 0, 2), goalMarker("L1.goal", 1, 0)>>
    ELSE <<wallBlock("L2.block00", 0, 0),
           wallSection("L2.north01", 0, 1, 0), wallSection("L2.east01", 0, 1, 1),
           wallSection("L2.south01", 0, 1, 2), wallSection("L2.west01", 0, 1, 3),
           startMarker("L2.start", 0, 1)>>

\* level.userData.startPosition: the start square at eye height 1.8
LevelStart(level) ==
    IF level = 1 THEN Vector3(0, 1800, 0) ELSE Vector3(0, 1800, corridorWidth)

AllLevelMeshes == UNION {Range(LevelMeshes(level)) : level \in Levels}

LevelMeshNames == {m.mesh : m \in AllLevelMeshes}

LevelMesh(name) == CHOOSE m \in AllLevelMeshes : m.mesh = name

----------------------------------------------------------------------------
(* SpatialHashGrid *)

\* The objects placed in a grid: three wall meshes, a marker that is no wall,
\* and the meshes of the levels.
Walls == {"wallA", "wallB", "wallC"}
Objects == Walls \cup {"marker"} \cup LevelMeshNames

\* The grid as a value, for the operations that compose.
Grid == [cells |-> cells, objectCells |-> objectCells]

\* new SpatialHashGrid(cellSize, worldSizeX, worldSizeZ)
GridConstructor(cs, wx, wz) ==
    /\ cellSize = cs
    /\ worldSizeX = wx
    /\ worldSizeZ = wz
    /\ numCellsX = Ceil(wx, cs)
    /\ numCellsZ = Ceil(wz, cs)
    /\ cells = [i \in 0..(Ceil(wx, cs) * Ceil(wz, cs) - 1) |-> <<>>]
    /\ objectCells = [o \in Objects |-> Undefined]
    /\ insertedAt = [o \in Objects |-> [x |-> 0, z |-> 0]]

\* getCellIndex clamping to the world size itself instead of the world size
\* less 0.001
getCellIndexNoEpsilon(x, z) ==
    LET cellX == Max(0, Min(x, worldSizeX)) \div cellSize
        cellZ == Max(0, Min(z, worldSizeZ)) \div cellSize
    IN  cellX + cellZ * numCellsX

getCellIndex(x, z) ==
    LET cellX == Max(0, Min(x, worldSizeX - Epsilon)) \div cellSize
        cellZ == Max(0, Min(z, worldSizeZ - Epsilon)) \div cellSize
    IN  cellX + cellZ * numCellsX

\* this.cells[cellIndex].add(object) throws a TypeError when the array has no
\* such cell: the grid is then left as it was and threw is set.
insertObject(g, object, position) ==
    LET cellIndex == getCellIndex(position.x, position.z)
    IN  IF cellIndex \notin DOMAIN g.cells
        THEN [cells |-> g.cells, objectCells |-> g.objectCells, threw |-> TRUE]
        ELSE [cells |-> [g.cells EXCEPT ![cellIndex] = SetAdd(@, object)],
              objectCells |-> [g.objectCells EXCEPT ![object] = cellIndex],
              threw |-> FALSE]

\* removeObject emptying the whole cell set instead of deleting the object.
removeObjectEmptiesCell(g, object) ==
    LET cellIndex == g.objectCells[object]
    IN  IF cellIndex # Undefined
        THEN [cells |-> [g.cells EXCEPT ![cellIndex] = <<>>],
              objectCells |-> [g.objectCells EXCEPT ![object] = Undefined]]
        ELSE [cells |-> g.cells, objectCells |-> g.objectCells]

removeObject(g, object) ==
    LET cellIndex == g.objectCells[object]
    IN  IF cellIndex # Undefined
        THEN [cells |-> [g.cells EXCEPT ![cellIndex] = SetDelete(@, object)],
              objectCells |-> [g.objectCells EXCEPT ![object] = Undefined]]
        ELSE [cells |-> g.cells, objectCells |-> g.objectCells]

\* updateObject without the removeObject call.
updateObjectNoRemove(g, object, position) ==
    insertObject(g, object, position)

updateObject(g, object, position) ==
    insertObject(removeObject(g, object), object, position)

\* The cell indices the two nested loops of findNearbyObjects visit, in order.
CellsInRange(minCellX, maxCellX, minCellZ, maxCellZ) ==
    IF maxCellX < minCellX \/ maxCellZ < minCellZ
    THEN <<>>
    ELSE LET w == maxCellX - minCellX + 1
             h == maxCellZ - minCellZ + 1
         IN  [i \in 1..(w * h) |->
                 (minCellX + ((i - 1) % w)) + (minCellZ + ((i - 1) \div w)) * numCellsX]

RECURSIVE CollectCells(_, _, _)
\* if (cell) for (const obj of cell) nearby.add(obj), over the visited cells
CollectCells(g, indices, nearby) ==
    IF indices = <<>>
    THEN nearby
    ELSE LET cellIndex == Head(indices)
         IN  CollectCells(g, Tail(indices),
                 IF cellIndex \in DOMAIN g.cells
                 THEN SetAddAll(nearby, g.cells[cellIndex])
                 ELSE nearby)

findNearbyObjects(g, position, radius) ==
    LET minCellX == Max(0, position.x - radius) \div cellSize
        maxCellX == Min(worldSizeX - Epsilon, position.x + radius) \div cellSize
        minCellZ == Max(0, position.z - radius) \div cellSize
        maxCellZ == Min(worldSizeZ - Epsilon, position.z + radius) \div cellSize
    IN  CollectCells(g, CellsInRange(minCellX, maxCellX, minCellZ, maxCellZ), <<>>)

\* SpatialHashGrid.clear
gridClear(g) ==
    [cells |-> [i \in DOMAIN g.cells |-> <<>>],
     objectCells |-> [o \in DOMAIN g.objectCells |-> Undefined]]

----------------------------------------------------------------------------
(* CollisionSystem *)

\* this.playerRadius, this.playerHeight, this.maxCheckDistance
playerRadius == 500
playerHeight == 1800
maxCheckDistance == 5000

\* The wall meshes: mesh.position and the size of Box3.setFromObject(mesh).
\* The meshes of the levels are looked up in the levels; of the others,
\* wallA is the wall block createWallBlock puts on grid square (0, 0): the
\* box of size (2, 2) centred at (0, 0).  wallB is the box of size (4, 2)
\* centred at (0, 0).  wallC is the wall section createWall puts on the
\* north side of grid square (1, 1).
MeshPosition(mesh) ==
    CASE mesh \in LevelMeshNames -> LevelMesh(mesh).position
      [] mesh = "wallA" -> Vector3(0, 1500, 0)
      [] mesh = "wallB" -> Vector3(0, 1500, 0)
      [] OTHER -> Vector3(2000, 1500, 1000)

MeshSize(mesh) ==
    CASE mesh \in LevelMeshNames -> LevelMesh(mesh).size
      [] mesh = "wallA" -> Vector3(2000, 3000, 2000)
      [] mesh = "wallB" -> Vector3(4000, 3000, 2000)
      [] OTHER -> Vector3(2000, 3000, 20)

\* new CollisionSystem(scene)
SystemConstructor == [colliders |-> <<>>, playerCollider |-> Null, spatialGrid |-> Null]

\* The CollisionSystem of the application, as a value.
System == [colliders |-> colliders, playerCollider |-> playerCollider,
           spatialGrid |-> spatialGrid]

createPlayerCollider(sys, position) ==
    [sys EXCEPT !.playerCollider =
        [position |-> position, radius |-> playerRadius, height |-> playerHeight]]

addWallCollider(sys, mesh) ==
    [sys EXCEPT !.colliders =
        Append(@, [position |-> MeshPosition(mesh), size |-> MeshSize(mesh), mesh |-> mesh])]

\* updatePlayerPosition that leaves the collider where it was.
updatePlayerPositionNever(sys, position) == sys

updatePlayerPosition(sys, position) ==
    IF sys.playerCollider = Null
    THEN sys
    ELSE [sys EXCEPT !.playerCollider.position = position]

setSpatialGrid(sys, grid) == [sys EXCEPT !.spatialGrid = grid]

\* CollisionSystem.clear
clear(sys) == [sys EXCEPT !.colliders = <<>>, !.playerCollider = Null]

\* this.colliders.find(c => c.mesh === obj): the first match, or none
FindCollider(list, obj) ==
    LET matches == {i \in 1..Len(list) : list[i].mesh = obj}
    IN  IF matches = {}
        THEN <<>>
        ELSE <<list[CHOOSE i \in matches : \A j \in matches : i <= j]>>

RECURSIVE FilterColliders(_, _, _)
\* the loop over nearbyObjects that fills activeColliders
FilterColliders(list, nearbyObjects, active) ==
    IF nearbyObjects = <<>>
    THEN active
    ELSE LET matchingCollider == FindCollider(list, Head(nearbyObjects))
         IN  FilterColliders(list, Tail(nearbyObjects),
                 IF matchingCollider # <<>>
                 THEN SetAdd(active, matchingCollider[1])
                 ELSE active)

\* collidersToCheck taken to be the full collider list, grid or no grid.
CollidersToCheckAll(sys, g, proposed) == sys.colliders

\* collidersToCheck.  activeColliders is emptied and refilled here before it
\* is read, so it carries nothing from one call to the next.
CollidersToCheck(sys, g, proposed) ==
    IF sys.spatialGrid # Null
    THEN FilterColliders(sys.colliders,
                         findNearbyObjects(g, proposed, maxCheckDistance), <<>>)
    ELSE sys.colliders

\* minAxis over the distances taken in the order near, far, left, right.
MinAxisZFirst(dists) ==
    LET order == <<3, 4, 1, 2>>
        k == CHOOSE i \in 1..4 : /\ \A j \in 1..4 : dists[order[i]] <= dists[order[j]]
                                 /\ \A j \in 1..(i - 1) : dists[order[j]] > dists[order[i]]
    IN  order[k]

\* minAxis with the last of the smallest distances winning (<= for <).
MinAxisLast(dists) ==
    CHOOSE i \in 1..4 : /\ \A j \in 1..4 : dists[i] <= dists[j]
                        /\ \A j \in (i + 1)..4 : dists[j] > dists[i]

\* minAxis: the place of the first smallest of the four distances (1 .. 4
\* here, 0 .. 3 in the array of the program)
MinAxis(dists) ==
    CHOOSE i \in 1..4 : /\ \A j \in 1..4 : dists[i] <= dists[j]
                        /\ \A j \in 1..(i - 1) : dists[j] > dists[i]

\* The whole size taken for the half size.
HalfSizeFull(size) == size

\* collider.size.clone().multiplyScalar(0.5)
HalfSize(size) == [x |-> size.x \div 2, y |-> size.y \div 2, z |-> size.z \div 2]

\* PushOut moving by the whole radius, whatever the distance.
PushOutWholeRadius(adjustedPosition, dx, dz, distance) ==
    LET directionX == RoundDiv(dx * Scale, distance)
        directionZ == RoundDiv(dz * Scale, distance)
    IN  [adjustedPosition EXCEPT !.x = @ + RoundDiv(directionX * playerRadius, Scale),
                                 !.z = @ + RoundDiv(directionZ * playerRadius, Scale)]

\* PushOut moving by half the penetration depth.
PushOutHalf(adjustedPosition, dx, dz, distance) ==
    LET penetration == (playerRadius - distance) \div 2
        directionX == RoundDiv(dx * Scale, distance)
        directionZ == RoundDiv(dz * Scale, distance)
    IN  [adjustedPosition EXCEPT !.x = @ + RoundDiv(directionX * penetration, Scale),
                                 !.z = @ + RoundDiv(directionZ * penetration, Scale)]

\* The move out of a box whose closest point is (dx, dz) away, at the given
\* distance (0 < distance < playerRadius): along the unit vector from the
\* closest point to the circle centre, by the penetration depth.
PushOut(adjustedPosition, dx, dz, distance) ==
    LET penetration == playerRadius - distance
        directionX == RoundDiv(dx * Scale, distance)
        directionZ == RoundDiv(dz * Scale, distance)
    IN  [adjustedPosition EXCEPT !.x = @ + RoundDiv(directionX * penetration, Scale),
                                 !.z = @ + RoundDiv(directionZ * penetration, Scale)]

\* The body of the loop over collidersToCheck: one collider against the
\* position as adjusted so far.
ResolveCollider(adjustedPosition, collider) ==
    LET halfSize == HalfSize(collider.size)
        boxMinX == collider.position.x - halfSize.x
        boxMaxX == collider.position.x + halfSize.x
        boxMinZ == collider.position.z - halfSize.z
        boxMaxZ == collider.position.z + halfSize.z
        closestX == Max(boxMinX, Min(adjustedPosition.x, boxMaxX))
        closestZ == Max(boxMinZ, Min(adjustedPosition.z, boxMaxZ))
        dx == adjustedPosition.x - closestX
        dz == adjustedPosition.z - closestZ
        distance == Sqrt(dx * dx + dz * dz)
        penetration == playerRadius - distance
        dists == <<adjustedPosition.x - boxMinX, boxMaxX - adjustedPosition.x,
                   adjustedPosition.z - boxMinZ, boxMaxZ - adjustedPosition.z>>
        minAxis == MinAxis(dists)
    IN  IF distance < playerRadius
        THEN IF penetration > 0 /\ distance > 0
             THEN PushOut(adjustedPosition, dx, dz, distance)
             ELSE IF distance = 0
             THEN CASE minAxis = 1 -> [adjustedPosition EXCEPT !.x = boxMinX - playerRadius]
                    [] minAxis = 2 -> [adjustedPosition EXCEPT !.x = boxMaxX + playerRadius]
                    [] minAxis = 3 -> [adjustedPosition EXCEPT !.z = boxMinZ - playerRadius]
                    [] minAxis = 4 -> [adjustedPosition EXCEPT !.z = boxMaxZ + playerRadius]
             ELSE adjustedPosition
        ELSE adjustedPosition

RECURSIVE ResolveAllFromProposed(_, _)
\* ResolveAll testing every collider against the position as proposed and
\* keeping the last correction made.
ResolveAllFromProposed(adjustedPosition, collidersToCheck) ==
    IF collidersToCheck = <<>>
    THEN adjustedPosition
    ELSE LET corrected == ResolveCollider(adjustedPosition, Head(collidersToCheck))
             rest == ResolveAllFromProposed(adjustedPosition, Tail(collidersToCheck))
         IN  IF rest # adjustedPosition THEN rest ELSE corrected

RECURSIVE ResolveAll(_, _)
\* for (const collider of collidersToCheck) ...
ResolveAll(adjustedPosition, collidersToCheck) ==
    IF collidersToCheck = <<>>
    THEN adjustedPosition
    ELSE ResolveAll(ResolveCollider(adjustedPosition, Head(collidersToCheck)),
                    Tail(collidersToCheck))

\* checkCollisions without "adjustedPosition.y = playerPosition.y".
checkCollisionsKeepY(sys, g, current, proposed) ==
    IF sys.playerCollider = Null
    THEN [ret |-> proposed, checked |-> <<>>, grid |-> g]
    ELSE LET collidersToCheck == CollidersToCheck(sys, g, proposed)
         IN  [ret |-> ResolveAll(proposed, collidersToCheck), checked |-> collidersToCheck,
              grid |-> g]

\* checkCollisions without "if (!this.playerCollider) return proposedPosition".
checkCollisionsNoGuard(sys, g, current, proposed) ==
    LET collidersToCheck == CollidersToCheck(sys, g, proposed)
        adjustedPosition == ResolveAll(proposed, collidersToCheck)
    IN  [ret |-> [adjustedPosition EXCEPT !.y = current.y], checked |-> collidersToCheck,
         grid |-> g]

\* checkCollisions that empties the grid it has queried.
checkCollisionsDraining(sys, g, current, proposed) ==
    IF sys.playerCollider = Null
    THEN [ret |-> proposed, checked |-> <<>>, grid |-> g]
    ELSE LET collidersToCheck == CollidersToCheck(sys, g, proposed)
             adjustedPosition == ResolveAll(proposed, collidersToCheck)
         IN  [ret |-> [adjustedPosition EXCEPT !.y = current.y],
              checked |-> collidersToCheck,
              grid |-> IF sys.spatialGrid # Null THEN gridClear(g) ELSE g]

\* checkCollisions(playerPosition, proposedPosition): the position returned,
\* the colliders that were tested, and the grid as the call leaves it (the
\* call reads the grid through findNearbyObjects and writes nothing).
checkCollisions(sys, g, current, proposed) ==
    IF sys.playerCollider = Null
    THEN [ret |-> proposed, checked |-> <<>>, grid |-> g]
    ELSE LET collidersToCheck == CollidersToCheck(sys, g, proposed)
             adjustedPosition == ResolveAll(proposed, collidersToCheck)
         IN  [ret |-> [adjustedPosition EXCEPT !.y = current.y],
              checked |-> collidersToCheck, grid |-> g]

----------------------------------------------------------------------------
(* The grid's operations as steps *)

\* (cellSize, worldSizeX, worldSizeZ) of the grids built: the 20 x 20 world in
\* cells of 5, and a level of 3 x 5 squares of corridorWidth 2 in cells of
\* twice the corridor width (a world that is no whole number of cells).
GridConfigs == {<<5 * Scale, 20 * Scale, 20 * Scale>>, <<4 * Scale, 6 * Scale, 10 * Scale>>}

Point(x, z) == [x |-> x, z |-> z]

\* Where objects are put: inside the world, below it, and beyond it.
InsertPositions == {Point(2000, 2000), Point(-1000, 3000), Point(7000, 2000),
                    Point(25000, 25000)}

\* Where queries are centred.
QueryPositions == InsertPositions \cup
                  {Point(0, 0), Point(18000, 18000), Point(5500, 2000)}

Radii == {-1000, 0, 1000, 3000, 5000}

\* The objects the grid's own operations are exercised with.
GridObjects == {"wallA", "marker"}

NoCall == [op |-> "none", ret |-> Vector3(0, 0, 0), checked |-> <<>>,
           retFresh |-> Vector3(0, 0, 0)]

\* No call yet.  prior is the cell objectCells recorded for the object when
\* the call was made.
NoGridCall == [op |-> "none", object |-> "none", position |-> Point(0, 0), radius |-> 0,
               index |-> Undefined, nearby |-> <<>>, threw |-> FALSE,
               prior |-> Undefined]

InsertObject(o, p) ==
    LET g == insertObject(Grid, o, p)
    IN  /\ cells' = g.cells
        /\ objectCells' = g.objectCells
        /\ insertedAt' = IF g.threw THEN insertedAt ELSE [insertedAt EXCEPT ![o] = p]
        /\ gridCall' = [NoGridCall EXCEPT !.op = "insertObject", !.object = o,
                                          !.position = p, !.threw = g.threw,
                                          !.prior = objectCells[o]]
        /\ call' = NoCall
        /\ UNCHANGED <<appVars, cacheVars, gridShape, systemVars, fresh, phase, inputVars>>

UpdateObject(o, p) ==
    LET g == updateObject(Grid, o, p)
    IN  /\ cells' = g.cells
        /\ objectCells' = g.objectCells
        /\ insertedAt' = IF g.threw THEN insertedAt ELSE [insertedAt EXCEPT ![o] = p]
        /\ gridCall' = [NoGridCall EXCEPT !.op = "updateObject", !.object = o,
                                          !.position = p, !.threw = g.threw,
                                          !.prior = objectCells[o]]
        /\ call' = NoCall
        /\ UNCHANGED <<appVars, cacheVars, gridShape, systemVars, fresh, phase, inputVars>>

RemoveObject(o) ==
    LET g == removeObject(Grid, o)
    IN  /\ cells' = g.cells
        /\ objectCells' = g.objectCells
        /\ insertedAt' = [insertedAt EXCEPT ![o] = Point(0, 0)]
        /\ gridCall' = [NoGridCall EXCEPT !.op = "removeObject", !.object = o,
                                          !.prior = objectCells[o]]
        /\ call' = NoCall
        /\ UNCHANGED <<appVars, cacheVars, gridShape, systemVars, fresh, phase, inputVars>>

FindNearbyObjects(q, r) ==
    /\ gridCall' = [NoGridCall EXCEPT !.op = "findNearbyObjects", !.position = q,
                                      !.radius = r,
                                      !.nearby = findNearbyObjects(Grid, q, r)]
    /\ UNCHANGED <<appVars, cacheVars, gridShape, cells, objectCells, insertedAt, systemVars, fresh, phase,
                   inputVars, call>>

GetCellIndex(p) ==
    /\ gridCall' = [NoGridCall EXCEPT !.op = "getCellIndex", !.position = p,
                                      !.index = getCellIndex(p.x, p.z)]
    /\ UNCHANGED <<appVars, cacheVars, gridShape, cells, objectCells, insertedAt, systemVars, fresh, phase,
                   inputVars, call>>

GridClear ==
    LET g == gridClear(Grid)
    IN  /\ cells' = g.cells
        /\ objectCells' = g.objectCells
        /\ insertedAt' = [o \in Objects |-> Point(0, 0)]
        /\ gridCall' = [NoGridCall EXCEPT !.op = "clear"]
        /\ call' = NoCall
        /\ UNCHANGED <<appVars, cacheVars, gridShape, systemVars, fresh, phase, inputVars>>


----------------------------------------------------------------------------
(* The resolver's operations as steps *)

\* How many wall colliders are registered at most.
MaxColliders == 2

\* The walls the level generator builds and puts in the grid.
LevelWalls == {"wallA", "wallC"}

\* The grid a level carries (level.userData.spatialGrid).
LevelGrid == [grid |-> 1]

\* level.userData.startPosition
StartPositions == {Vector3(0, 1800, 3000)}

\* The positions proposed: along the line from (0, 3) to (0, 0) in steps of
\* a quarter unit, and the same beside the corner of wallA and beside wallC.
\* At x = 1.41 the rounding of the push off the corner leaves the player a
\* rounding unit inside the radius.
ProposedXs == {0, 1250, 1410, 2600}
ProposedZs == {250 * k : k \in 0..12}
ProposedYs == {1800, 1900}

\* Whether the system has been used for a level.
Used == colliders # <<>> /\ playerCollider # Null /\ spatialGrid # Null

CreatePlayerCollider(position) ==
    /\ playerCollider' = createPlayerCollider(System, position).playerCollider
    /\ fresh' = createPlayerCollider(fresh, position)
    /\ call' = NoCall
    /\ UNCHANGED <<appVars, cacheVars, gridVars, gridCall, colliders, spatialGrid, phase, inputVars>>

AddWallCollider(mesh) ==
    /\ Len(colliders) < MaxColliders
    /\ colliders' = addWallCollider(System, mesh).colliders
    /\ fresh' = addWallCollider(fresh, mesh)
    /\ call' = NoCall
    /\ UNCHANGED <<appVars, cacheVars, gridVars, gridCall, playerCollider, spatialGrid, phase, inputVars>>

SetSpatialGrid ==
    /\ spatialGrid' = setSpatialGrid(System, LevelGrid).spatialGrid
    /\ phase' = IF phase = "cleared" THEN "reattached" ELSE phase
    /\ call' = NoCall
    /\ UNCHANGED <<appVars, cacheVars, gridVars, gridCall, colliders, playerCollider, fresh, inputVars>>

\* The positions updatePlayerPosition is given: the start position and the
\* player a unit and a half on.
UpdatedPositions == StartPositions \cup {Vector3(0, 1800, 1500)}

UpdatePlayerPosition(position) ==
    /\ playerCollider' = updatePlayerPosition(System, position).playerCollider
    /\ colliders' = updatePlayerPosition(System, position).colliders
    /\ spatialGrid' = updatePlayerPosition(System, position).spatialGrid
    /\ fresh' = updatePlayerPosition(fresh, position)
    /\ call' = [NoCall EXCEPT !.op = "updatePlayerPosition", !.ret = position]
    /\ UNCHANGED <<appVars, cacheVars, gridVars, gridCall, phase, inputVars>>

\* clear(), and beside it the construction of a new CollisionSystem, which
\* from here on is given the createPlayerCollider and addWallCollider calls
\* that the cleared one is given.
Clear ==
    /\ colliders' = clear(System).colliders
    /\ playerCollider' = clear(System).playerCollider
    /\ spatialGrid' = clear(System).spatialGrid
    /\ fresh' = SystemConstructor
    /\ phase' = IF Used \/ phase = "cleared" THEN "cleared" ELSE phase
    /\ call' = NoCall
    /\ UNCHANGED <<appVars, cacheVars, gridVars, gridCall, inputVars>>

\* createWallBlock / createWall: this.spatialGrid.insertObject(wall, position)
InsertWall(mesh) == InsertObject(mesh, Point(MeshPosition(mesh).x, MeshPosition(mesh).z))

CheckCollisions ==
    LET r == checkCollisions(System, Grid, playerPosition, proposedPosition)
        f == checkCollisions(fresh, Grid, playerPosition, proposedPosition)
    IN  /\ call' = [op |-> "checkCollisions", ret |-> r.ret, checked |-> r.checked,
                    retFresh |-> f.ret]
        /\ cells' = r.grid.cells
        /\ objectCells' = r.grid.objectCells
        /\ UNCHANGED <<appVars, cacheVars, gridShape, insertedAt, gridCall, systemVars, fresh, phase,
                       inputVars>>

----------------------------------------------------------------------------
(* The application: threejsdemo and FirstPersonCamera *)

\* Time is counted in units of 1/3000 s, so that the fixed time step of
\* 1/60 s and the 0.1 s that a frame's elapsed time is capped at are whole.
TicksPerSecond == 3000
fixedTimeStep == TicksPerSecond \div 60
maxFrameTime == TicksPerSecond \div 10

\* null, as the value of previousRAF
NoTime == -1

\* FirstPersonCamera.forwardSpeed_, in model units per second, and the length
\* forwardSpeed_ * timeElapsedS of one step forward.
forwardSpeed == 2 * Scale
StepLength == RoundDiv(forwardSpeed * fixedTimeStep, TicksPerSecond)

\* What one animation frame works on: the resolver, the attached grid, the
\* controller's position, and (history) the calls made on the resolver and
\* the number of physics steps run.
World(sys, g, position) ==
    [sys |-> sys, grid |-> g, translation |-> position, calls |-> <<>>, steps |-> 0]

\* FirstPersonCamera.updateTranslation_ with the mouse at rest (phi_ = 0) and
\* of the keys only W held or not: forward is (0, 0, -1) scaled.
updateTranslation_(w, forwardVelocity) ==
    LET currentPosition == w.translation
        proposedPos == [currentPosition EXCEPT !.z = @ - forwardVelocity * StepLength]
        r == checkCollisions(w.sys, w.grid, currentPosition, proposedPos)
    IN  [w EXCEPT !.translation = r.ret,
                  !.grid = r.grid,
                  !.calls = Append(@, "checkCollisions")]

\* FirstPersonCamera.updateCamera_: bob is Math.sin(headBobTimer_ * 10) *
\* bobIntensity_, the head-bob offset of the camera's Y.
updateCamera_(w, bob) ==
    LET cameraPosition == [w.translation EXCEPT !.y = @ + bob]
    IN  [w EXCEPT !.sys = updatePlayerPosition(@, cameraPosition),
                  !.calls = Append(@, "updatePlayerPosition")]

\* update with updateCamera_ run before updateTranslation_.
updateCameraFirst(w, locked, forwardVelocity, bob) ==
    IF ~locked
    THEN w
    ELSE updateTranslation_(updateCamera_(w, bob), forwardVelocity)

\* FirstPersonCamera.update(timeElapsedS)
update(w, locked, forwardVelocity, bob) ==
    IF ~locked
    THEN w
    ELSE updateCamera_(updateTranslation_(w, forwardVelocity), bob)

\* The loop of animate with "if" for "while": one step a frame at most.
RunStepsOnce(w, accumulator, locked, forwardVelocity, bob) ==
    IF accumulator >= fixedTimeStep
    THEN [world |-> [update(w, locked, forwardVelocity, bob) EXCEPT !.steps = @ + 1],
          timeAccumulator |-> accumulator - fixedTimeStep]
    ELSE [world |-> w, timeAccumulator |-> accumulator]

RECURSIVE RunSteps(_, _, _, _, _)
\* while (this.timeAccumulator >= this.fixedTimeStep) { this.fpsCamera.update(
\* this.fixedTimeStep); this.checkGoalReached(); this.timeAccumulator -=
\* this.fixedTimeStep; }   (checkGoalReached changes nothing)
RunSteps(w, accumulator, locked, forwardVelocity, bob) ==
    IF accumulator >= fixedTimeStep
    THEN RunSteps([update(w, locked, forwardVelocity, bob) EXCEPT !.steps = @ + 1],
                  accumulator - fixedTimeStep, locked, forwardVelocity, bob)
    ELSE [world |-> w, timeAccumulator |-> accumulator]

\* loadLevel that clears nothing before it fetches.
teardownNever(sys, current) == [sys |-> sys, cleared |-> <<>>]

\* threejsdemo.loadLevel up to its await: if (this.currentLevel) {
\* this.scene.remove(this.currentLevel); this.collisionSystem.clear(); }
\* cleared lists what clear() was called on.
teardown(sys, current) ==
    IF current # NoLevel
    THEN [sys |-> clear(sys), cleared |-> <<"collisionSystem">>]
    ELSE [sys |-> sys, cleared |-> <<>>]

RECURSIVE setupColliders(_, _)
\* threejsdemo.setupColliders: addWallCollider for every mesh of the level
\* that is not the floor or the ceiling
setupColliders(sys, meshes) ==
    IF meshes = <<>>
    THEN sys
    ELSE setupColliders(addWallCollider(sys, Head(meshes).mesh), Tail(meshes))

RECURSIVE insertWalls(_, _)
\* The insertObject calls of createWallBlock and createWall, on the grid that
\* generateLevel has constructed.
insertWalls(g, meshes) ==
    IF meshes = <<>>
    THEN g
    ELSE LET m == Head(meshes)
         IN  CHOOSE result \in
                 {insertWalls(next, Tail(meshes)) :
                     next \in {IF m.inGrid
                               THEN insertObject(g, m.mesh,
                                                 Point(m.position.x, m.position.z))
                               ELSE g}} : TRUE

\* The catch blocks with the throw taken for granted.
catchErrorAlways(threw, messages) ==
    messages \o <<"Error loading level:", "Failed to load level:">>

\* The catch blocks of LevelGenerator.loadLevel and threejsdemo.loadLevel: the
\* first logs and throws again, the second logs.
catchError(threw, messages) ==
    IF threw
    THEN messages \o <<"Error loading level:", "Failed to load level:">>
    ELSE messages

\* animate() called whether or not the load threw.
animateIfFirstAlways(threw, previous, pending) ==
    IF previous = NoTime THEN pending + 1 ELSE pending

\* if (this.previousRAF === null) { this.animate(); } at the end of the try
\* block: not reached when the load threw.  animate registers one callback.
animateIfFirst(threw, previous, pending) ==
    IF ~threw /\ previous = NoTime THEN pending + 1 ELSE pending

\* How many times loadLevel is called, the call of the constructor included.
MaxLoads == 2

\* Up to what time animation frames are followed.
MaxTime == 500

\* The time between two animation frames: half a fixed step, one fixed
\* step, and a pause of 0.15 s (a tab switched away).
FrameDeltas == {fixedTimeStep \div 2, fixedTimeStep, maxFrameTime + maxFrameTime \div 2}

\* The offsets the head bob gives the camera's Y.
BobOffsets == {0, 50}

NoFrame == [ran |-> FALSE, delta |-> 0, accumulatorBefore |-> 0, accumulatorAfter |-> 0,
            steps |-> 0, calls |-> <<>>, locked |-> FALSE]

\* new threejsdemo(): no level, the loadLevel('level1.json') of the
\* constructor waiting for its fetch, no frame requested yet.
AppInit ==
    /\ currentLevel = NoLevel
    /\ loads = <<[file |-> 1, stage |-> "awaiting", replaced |-> NoLevel,
                  cleared |-> <<>>, calledAfter |-> 0]>>
    /\ finished = <<>>
    /\ previousRAF = NoTime
    /\ rafPending = 0
    /\ timeAccumulator = 0
    /\ pointerLocked = FALSE
    /\ translation = Vector3(0, 0, 0)
    /\ console = <<>>
    /\ frame = NoFrame

\* threejsdemo.loadLevel(levelFile), up to "await this.levelGenerator.
\* loadLevel(levelFile)".  The call is recorded with the level it replaces
\* (currentLevel at the call) and the number of calls that had returned.
LoadLevel(file) ==
    /\ Len(loads) < MaxLoads
    /\ LET td == teardown(System, currentLevel)
       IN  /\ colliders' = td.sys.colliders
           /\ playerCollider' = td.sys.playerCollider
           /\ spatialGrid' = td.sys.spatialGrid
           /\ loads' = Append(loads, [file |-> file, stage |-> "awaiting",
                                      replaced |-> currentLevel, cleared |-> td.cleared,
                                      calledAfter |-> Len(finished)])
    /\ frame' = NoFrame
    /\ UNCHANGED <<gridVars, probeVars, cacheVars, currentLevel, finished, previousRAF, rafPending,
                   timeAccumulator, pointerLocked, translation, console>>

\* The cells and the map of a grid as its constructor leaves them.
NewGrid ==
    [cells |-> [i \in 0..(numCellsX * numCellsZ - 1) |-> <<>>],
     objectCells |-> [o \in Objects |-> Undefined]]

\* The fetch and the parse of call i have succeeded: generateLevel builds
\* the level with a new grid, and loadLevel goes on behind its await.  The
\* walls are inserted into the new grid: the insertObject calls are
\* evaluated on the fields the constructor has just set.
LevelLoaded(i) ==
    /\ i \in DOMAIN loads
    /\ loads[i].stage = "awaiting"
    /\ \E level \in {loads[i].file} :
       LET meshes == LevelMeshes(level)
           sized == setSpatialGrid(System, [grid |-> level])
           placed == createPlayerCollider(sized, LevelStart(level))
           sys == setupColliders(placed, meshes)
       IN  /\ cellSize' = corridorWidth * 2
           /\ worldSizeX' = LevelSquares(level)[1] * corridorWidth
           /\ worldSizeZ' = LevelSquares(level)[2] * corridorWidth
           /\ numCellsX' = Ceil(worldSizeX', cellSize')
           /\ numCellsZ' = Ceil(worldSizeZ', cellSize')
           /\ cells' = (insertWalls(NewGrid, meshes).cells)'
           /\ objectCells' = (insertWalls(NewGrid, meshes).objectCells)'
           /\ insertedAt' = [o \in Objects |->
                                IF objectCells'[o] # Undefined
                                THEN Point(MeshPosition(o).x, MeshPosition(o).z)
                                ELSE Point(0, 0)]
           /\ colliders' = sys.colliders
           /\ playerCollider' = sys.playerCollider
           /\ spatialGrid' = sys.spatialGrid
           /\ translation' = LevelStart(level)
           /\ currentLevel' = level
    /\ loads' = [loads EXCEPT ![i].stage = "loaded"]
    /\ finished' = Append(finished, i)
    /\ console' = catchError(FALSE, console)
    /\ rafPending' = animateIfFirst(FALSE, previousRAF, rafPending)
    /\ frame' = NoFrame
    /\ UNCHANGED <<probeVars, cacheVars, previousRAF, timeAccumulator, pointerLocked>>

\* The fetch of call i has failed, the response was not ok, or the level
\* data could not be parsed or built: both loadLevel functions catch.
LevelFailed(i) ==
    /\ i \in DOMAIN loads
    /\ loads[i].stage = "awaiting"
    /\ loads' = [loads EXCEPT ![i].stage = "failed"]
    /\ finished' = Append(finished, i)
    /\ console' = catchError(TRUE, console)
    /\ rafPending' = animateIfFirst(TRUE, previousRAF, rafPending)
    /\ frame' = NoFrame
    /\ UNCHANGED <<gridVars, systemVars, probeVars, cacheVars, currentLevel, previousRAF,
                   timeAccumulator, pointerLocked, translation>>

\* The callback that animate registers, called d after the frame before it.
AnimationFrame(d, forwardVelocity, bob) ==
    /\ rafPending > 0
    /\ LET t == IF previousRAF = NoTime THEN 0 ELSE previousRAF + d
           previous == IF previousRAF = NoTime THEN t ELSE previousRAF
           timeElapsedS == Min(t - previous, maxFrameTime)
       IN  \E r \in {RunSteps(World(System, Grid, translation),
                              timeAccumulator + timeElapsedS,
                              pointerLocked, forwardVelocity, bob)} :
           /\ t <= MaxTime
           /\ colliders' = r.world.sys.colliders
           /\ playerCollider' = r.world.sys.playerCollider
           /\ spatialGrid' = r.world.sys.spatialGrid
           /\ cells' = r.world.grid.cells
           /\ objectCells' = r.world.grid.objectCells
           /\ translation' = r.world.translation
           /\ timeAccumulator' = r.timeAccumulator
           /\ previousRAF' = t
           /\ frame' = [ran |-> TRUE, delta |-> t - previous,
                        accumulatorBefore |-> timeAccumulator,
                        accumulatorAfter |-> r.timeAccumulator,
                        steps |-> r.world.steps, calls |-> r.world.calls,
                        locked |-> pointerLocked]
    /\ UNCHANGED <<gridShape, insertedAt, probeVars, cacheVars, currentLevel, loads, finished,
                   rafPending, pointerLocked, console>>

\* A click on the page: canvas.requestPointerLock() is granted.
PointerLock ==
    /\ ~pointerLocked
    /\ pointerLocked' = TRUE
    /\ frame' = NoFrame
    /\ UNCHANGED <<gridVars, systemVars, probeVars, cacheVars, currentLevel, loads, finished,
                   previousRAF, rafPending, timeAccumulator, translation, console>>

\* Escape: the browser releases the pointer.
PointerUnlock ==
    /\ pointerLocked
    /\ pointerLocked' = FALSE
    /\ frame' = NoFrame
    /\ UNCHANGED <<gridVars, systemVars, probeVars, cacheVars, currentLevel, loads, finished,
                   previousRAF, rafPending, timeAccumulator, translation, console>>

----------------------------------------------------------------------------
(* ResourceManager *)

\* The keys resources are asked for under ('floor' names a geometry and a
\* material in LevelGenerator), and the three kinds of resource.
Keys == {"floor", "wall"}
ResourceTypes == {"geometry", "material", "texture"}

\* {}: an object without keys
EmptyCache == [key \in Keys |-> Undefined]

\* The caches of the resource manager, as a value.
Manager == [geometries |-> geometries, materials |-> materials, textures |-> textures]

\* new ResourceManager(), the object allocated for it being given: the
\* instance that exists is returned, or else the new object becomes the
\* instance and is given its three empty caches.
ManagerConstructor(existing, object) ==
    IF existing # Undefined
    THEN [instance |-> existing, initialised |-> FALSE]
    ELSE [instance |-> object, initialised |-> TRUE]

\* getGeometry(key, createFunc): createFunc tells whether a create function
\* is passed, object is what it returns when it is invoked.
getGeometry(rm, key, createFunc, object) ==
    IF rm.geometries[key] = Undefined /\ createFunc
    THEN [rm |-> [rm EXCEPT !.geometries[key] = object], ret |-> object, invoked |-> TRUE]
    ELSE [rm |-> rm, ret |-> rm.geometries[key], invoked |-> FALSE]

\* getMaterial that invokes the create function whatever is cached.
getMaterialNoCache(rm, key, createFunc, object) ==
    IF createFunc
    THEN [rm |-> [rm EXCEPT !.materials[key] = object], ret |-> object, invoked |-> TRUE]
    ELSE [rm |-> rm, ret |-> rm.materials[key], invoked |-> FALSE]

getMaterial(rm, key, createFunc, object) ==
    IF rm.materials[key] = Undefined /\ createFunc
    THEN [rm |-> [rm EXCEPT !.materials[key] = object], ret |-> object, invoked |-> TRUE]
    ELSE [rm |-> rm, ret |-> rm.materials[key], invoked |-> FALSE]

getTexture(rm, key, createFunc, object) ==
    IF rm.textures[key] = Undefined /\ createFunc
    THEN [rm |-> [rm EXCEPT !.textures[key] = object], ret |-> object, invoked |-> TRUE]
    ELSE [rm |-> rm, ret |-> rm.textures[key], invoked |-> FALSE]

\* The resources a cache holds (Object.values).
Cached(cache) == {cache[key] : key \in Keys} \ {Undefined}

\* ResourceManager.dispose: dispose() is called on every cached resource and
\* the three caches are replaced by empty ones.
dispose(rm) ==
    [rm |-> [geometries |-> EmptyCache, materials |-> EmptyCache, textures |-> EmptyCache],
     disposed |-> Cached(rm.textures) \cup Cached(rm.materials) \cup Cached(rm.geometries)]

\* resourceMap[type]: the cache of a type, none for a type that is not one
\* of the three.
ResourceMap(rm, type) ==
    CASE type = "geometry" -> rm.geometries
      [] type = "material" -> rm.materials
      [] type = "texture" -> rm.textures
      [] OTHER -> EmptyCache

\* ResourceManager.disposeResource(type, key)
disposeResource(rm, type, key) ==
    LET resource == ResourceMap(rm, type)[key]
    IN  IF resource # Undefined
        THEN [rm |-> CASE type = "geometry" -> [rm EXCEPT !.geometries[key] = Undefined]
                       [] type = "material" -> [rm EXCEPT !.materials[key] = Undefined]
                       [] type = "texture" -> [rm EXCEPT !.textures[key] = Undefined],
              disposed |-> {resource}]
        ELSE [rm |-> rm, disposed |-> {}]

----------------------------------------------------------------------------
(* The resource manager's operations as steps *)

\* How many times new ResourceManager() is evaluated, and how many objects
\* (the instance and the resources created) are allocated at most.
MaxManagers == 2
MaxObjects == 4

NoCacheCall == [op |-> "none", type |-> "none", key |-> "none", createFunc |-> FALSE,
                ret |-> Undefined, invoked |-> FALSE]

NoneSince == [entry \in ResourceTypes \X Keys |-> 0]
NothingReturned == [entry \in ResourceTypes \X Keys |-> {}]

\* Before any ResourceManager is constructed.
CacheInit ==
    /\ instance = Undefined
    /\ managers = <<>>
    /\ geometries = EmptyCache
    /\ materials = EmptyCache
    /\ textures = EmptyCache
    /\ nextObject = 0
    /\ disposed = {}
    /\ createdSince = NoneSince
    /\ returnedSince = NothingReturned
    /\ cacheCall = NoCacheCall

programVars == <<gridVars, systemVars, probeVars, appVars>>

NewResourceManager ==
    /\ Len(managers) < MaxManagers
    /\ LET made == ManagerConstructor(instance, nextObject + 1)
       IN  /\ instance' = made.instance
           /\ managers' = Append(managers, made.instance)
           /\ nextObject' = IF made.initialised THEN nextObject + 1 ELSE nextObject
           /\ geometries' = IF made.initialised THEN EmptyCache ELSE geometries
           /\ materials' = IF made.initialised THEN EmptyCache ELSE materials
           /\ textures' = IF made.initialised THEN EmptyCache ELSE textures
    /\ cacheCall' = [NoCacheCall EXCEPT !.op = "new"]
    /\ UNCHANGED <<programVars, disposed, createdSince, returnedSince>>

\* A get call of one of the three kinds, with what it did to the caches.
GetCall(type, key, createFunc, got) ==
    /\ instance # Undefined
    /\ got.invoked => nextObject < MaxObjects
    /\ geometries' = got.rm.geometries
    /\ materials' = got.rm.materials
    /\ textures' = got.rm.textures
    /\ nextObject' = IF got.invoked THEN nextObject + 1 ELSE nextObject
    /\ createdSince' = [createdSince EXCEPT ![<<type, key>>] =
                            IF got.invoked THEN @ + 1 ELSE @]
    /\ returnedSince' = [returnedSince EXCEPT ![<<type, key>>] =
                             IF createFunc THEN @ \cup {got.ret} ELSE @]
    /\ cacheCall' = [op |-> "get", type |-> type, key |-> key, createFunc |-> createFunc,
                     ret |-> got.ret, invoked |-> got.invoked]
    /\ UNCHANGED <<programVars, instance, managers, disposed>>

GetGeometry(key, createFunc) ==
    GetCall("geometry", key, createFunc, getGeometry(Manager, key, createFunc, nextObject + 1))

GetMaterial(key, createFunc) ==
    GetCall("material", key, createFunc, getMaterial(Manager, key, createFunc, nextObject + 1))

GetTexture(key, createFunc) ==
    GetCall("texture", key, createFunc, getTexture(Manager, key, createFunc, nextObject + 1))

Dispose ==
    /\ instance # Undefined
    /\ geometries' = dispose(Manager).rm.geometries
    /\ materials' = dispose(Manager).rm.materials
    /\ textures' = dispose(Manager).rm.textures
    /\ disposed' = disposed \cup dispose(Manager).disposed
    /\ createdSince' = NoneSince
    /\ returnedSince' = NothingReturned
    /\ cacheCall' = [NoCacheCall EXCEPT !.op = "dispose"]
    /\ UNCHANGED <<programVars, instance, managers, nextObject>>

\* disposeResource: what is counted and collected for the key starts anew
\* when its resource is deleted from the cache.
DisposeResource(type, key) ==
    /\ instance # Undefined
    /\ LET done == disposeResource(Manager, type, key)
       IN  /\ geometries' = done.rm.geometries
           /\ materials' = done.rm.materials
           /\ textures' = done.rm.textures
           /\ disposed' = disposed \cup done.disposed
           /\ createdSince' = IF done.disposed # {}
                              THEN [createdSince EXCEPT ![<<type, key>>] = 0]
                              ELSE createdSince
           /\ returnedSince' = IF done.disposed # {}
                               THEN [returnedSince EXCEPT ![<<type, key>>] = {}]
                               ELSE returnedSince
    /\ cacheCall' = [NoCacheCall EXCEPT !.op = "disposeResource", !.type = type, !.key = key]
    /\ UNCHANGED <<programVars, instance, managers, nextObject>>

----------------------------------------------------------------------------
(* Specifications *)

SystemInit ==
    /\ colliders = SystemConstructor.colliders
    /\ playerCollider = SystemConstructor.playerCollider
    /\ spatialGrid = SystemConstructor.spatialGrid
    /\ fresh = SystemConstructor
    /\ phase = "new"
    /\ call = NoCall

\* The grid alone: any grid, any operation on it.
InitGrid ==
    /\ \E c \in GridConfigs : GridConstructor(c[1], c[2], c[3])
    /\ gridCall = NoGridCall
    /\ SystemInit
    /\ AppInit
    /\ CacheInit
    /\ playerPosition = Vector3(0, 1800, 3000)
    /\ proposedPosition = Vector3(0, 1800, 3000)

NextGrid ==
    \/ \E o \in GridObjects, p \in InsertPositions : InsertObject(o, p)
    \/ \E o \in GridObjects, p \in InsertPositions : UpdateObject(o, p)
    \/ \E o \in GridObjects : RemoveObject(o)
    \/ \E q \in QueryPositions, r \in Radii : FindNearbyObjects(q, r)
    \/ \E p \in QueryPositions : GetCellIndex(p)
    \/ GridClear

SpecGrid == InitGrid /\ [][NextGrid]_vars

\* The resolver with the grid of a level: the two positions checkCollisions
\* is called with are drawn at the start.
Init ==
    /\ GridConstructor(4 * Scale, 6 * Scale, 10 * Scale)
    /\ gridCall = NoGridCall
    /\ SystemInit
    /\ AppInit
    /\ CacheInit
    /\ playerPosition \in StartPositions
    /\ proposedPosition \in {Vector3(x, y, z) : x \in ProposedXs, y \in ProposedYs,
                                                z \in ProposedZs}

Next ==
    \/ \E position \in StartPositions : CreatePlayerCollider(position)
    \/ \E mesh \in Walls : AddWallCollider(mesh)
    \/ \E position \in UpdatedPositions : UpdatePlayerPosition(position)
    \/ SetSpatialGrid
    \/ Clear
    \/ \E mesh \in LevelWalls : InsertWall(mesh)
    \/ CheckCollisions

Spec == Init /\ [][Next]_vars

\* The application: level loads resolving in any order between animation
\* frames.  Before the first level has loaded there is no grid; the grid
\* variables then hold an empty grid of one cell.
InitApp ==
    /\ GridConstructor(corridorWidth * 2, corridorWidth, corridorWidth)
    /\ gridCall = NoGridCall
    /\ SystemInit
    /\ AppInit
    /\ CacheInit
    /\ playerPosition = Vector3(0, 0, 0)
    /\ proposedPosition = Vector3(0, 0, 0)

NextApp ==
    \/ \E file \in Levels : LoadLevel(file)
    \/ \E i \in 1..MaxLoads : LevelLoaded(i)
    \/ \E i \in 1..MaxLoads : LevelFailed(i)
    \/ \E d \in FrameDeltas, forwardVelocity \in {0, 1}, bob \in BobOffsets :
           AnimationFrame(d, forwardVelocity, bob)
    \/ PointerLock
    \/ PointerUnlock

SpecApp == InitApp /\ [][NextApp]_vars

\* The resource manager alone: constructions, get calls with and without a
\* create function, and disposals in any order.
InitCache ==
    /\ GridConstructor(corridorWidth * 2, corridorWidth, corridorWidth)
    /\ gridCall = NoGridCall
    /\ SystemInit
    /\ AppInit
    /\ CacheInit
    /\ playerPosition = Vector3(0, 0, 0)
    /\ proposedPosition = Vector3(0, 0, 0)

NextCache ==
    \/ NewResourceManager
    \/ \E key \in Keys, createFunc \in BOOLEAN : GetGeometry(key, createFunc)
    \/ \E key \in Keys, createFunc \in BOOLEAN : GetMaterial(key, createFunc)
    \/ \E key \in Keys, createFunc \in BOOLEAN : GetTexture(key, createFunc)
    \/ Dispose
    \/ \E type \in ResourceTypes \cup {"mesh"}, key \in Keys : DisposeResource(type, key)

SpecCache == InitCache /\ [][NextCache]_vars

----------------------------------------------------------------------------
(* The grid: claims C1, C5, C6, C7, C11, C18, C19, under SpecGrid *)

Tracked(o) == objectCells[o] # Undefined

CellsHolding(o) == {i \in DOMAIN cells : o \in Range(cells[i])}

\* C1: after any sequence of insertObject / updateObject / removeObject calls,
\* an insertObject of an object that is already tracked included, every
\* tracked object is in exactly one cell's set, the one objectCells records
\* for it, and no cell holds an object that objectCells does not track.
ExclusiveMembership ==
    \A o \in Objects :
        IF Tracked(o) THEN CellsHolding(o) = {objectCells[o]} ELSE CellsHolding(o) = {}

\* C5: findNearbyObjects(q, r) with r >= 0 returns every tracked object that
\* was inserted at a position p with |p.x - q.x| <= r and |p.z - q.z| <= r,
\* also when p or q lies outside the world.
NearbyComplete ==
    (gridCall.op = "findNearbyObjects" /\ gridCall.radius >= 0) =>
        \A o \in Objects :
            (/\ Tracked(o)
             /\ Abs(insertedAt[o].x - gridCall.position.x) <= gridCall.radius
             /\ Abs(insertedAt[o].z - gridCall.position.z) <= gridCall.radius)
            => o \in Range(gridCall.nearby)

InBounds(p) == p.x >= 0 /\ p.x < worldSizeX /\ p.z >= 0 /\ p.z < worldSizeZ

\* The point of [0, worldSizeX) x [0, worldSizeZ) nearest to p, at the
\* resolution of the model.
NearestInBounds(p) ==
    Point(IF p.x < 0 THEN 0 ELSE IF p.x >= worldSizeX THEN worldSizeX - 1 ELSE p.x,
          IF p.z < 0 THEN 0 ELSE IF p.z >= worldSizeZ THEN worldSizeZ - 1 ELSE p.z)

\* The cell an in-bounds point lies in: column plus row times row length.
CellOf(p) == (p.x \div cellSize) + (p.z \div cellSize) * numCellsX

\* C6: for a position outside the world, getCellIndex returns the index of
\* the cell of the nearest in-bounds point, which is an index of the cells
\* array (0 .. numCellsX * numCellsZ - 1), and insertObject (alone or in
\* updateObject) never addresses a missing cell.
ClampedCellIndex ==
    /\ (gridCall.op = "getCellIndex" /\ ~InBounds(gridCall.position)) =>
           /\ gridCall.index = CellOf(NearestInBounds(gridCall.position))
           /\ gridCall.index \in 0..(numCellsX * numCellsZ - 1)
           /\ gridCall.index \in DOMAIN cells
    /\ gridCall.op \in {"insertObject", "updateObject"} =>
           /\ ~gridCall.threw
           /\ objectCells[gridCall.object] = CellOf(NearestInBounds(gridCall.position))

\* C6 witness: getCellIndex was called with a position beyond the world on
\* both axes and returned the last cell.
ClampedCellIndexWitness ==
    /\ gridCall.op = "getCellIndex"
    /\ gridCall.position.x >= worldSizeX
    /\ gridCall.position.z >= worldSizeZ
    /\ gridCall.index = numCellsX * numCellsZ - 1

\* C7: findNearbyObjects with a zero or negative radius raises no error and
\* returns exactly the members of the cell getCellIndex designates for the
\* position.
DegenerateRadius ==
    (gridCall.op = "findNearbyObjects" /\ gridCall.radius <= 0) =>
        /\ ~gridCall.threw
        /\ Range(gridCall.nearby) =
               Range(cells[getCellIndex(gridCall.position.x, gridCall.position.z)])

\* The cell indices of the rectangle findNearbyObjects(q, r) visits.
QueryRectangle(q, r) ==
    Range(CellsInRange(Max(0, q.x - r) \div cellSize,
                       Min(worldSizeX - Epsilon, q.x + r) \div cellSize,
                       Max(0, q.z - r) \div cellSize,
                       Min(worldSizeZ - Epsilon, q.z + r) \div cellSize))

\* The 20 x 20 world in cells of 5, with object o last inserted at (2, 2).
InsertedAtTwoTwo(o) ==
    /\ cellSize = 5 * Scale /\ worldSizeX = 20 * Scale /\ worldSizeZ = 20 * Scale
    /\ Tracked(o)
    /\ insertedAt[o] = Point(2000, 2000)

\* C11: with cell size 5 in a 20 x 20 world, after inserting an object at
\* (2, 2), findNearbyObjects((0, 0), 3) contains it and
\* findNearbyObjects((18, 18), 1) does not; and no query returns an object
\* whose cell, the one objectCells records, is outside the cell rectangle of
\* the query.
RangeQuerySound ==
    gridCall.op = "findNearbyObjects" =>
        /\ \A o \in Range(gridCall.nearby) :
               /\ Tracked(o)
               /\ objectCells[o] \in QueryRectangle(gridCall.position, gridCall.radius)
        /\ \A o \in Objects :
               InsertedAtTwoTwo(o) =>
                   /\ (gridCall.position = Point(0, 0) /\ gridCall.radius = 3000)
                          => o \in Range(gridCall.nearby)
                   /\ (gridCall.position = Point(18000, 18000) /\ gridCall.radius = 1000)
                          => o \notin Range(gridCall.nearby)

\* C18: updateObject(object, position) leaves the grid as removeObject(object)
\* followed by insertObject(object, position) leaves it, and for an object
\* that is not tracked as insertObject(object, position) alone leaves it.
UpdateIsRemoveThenInsert ==
    [][gridCall'.op = "updateObject" =>
          LET o == gridCall'.object
              p == gridCall'.position
              composed == insertObject(removeObject(Grid, o), o, p)
              inserted == insertObject(Grid, o, p)
          IN  /\ cells' = composed.cells
              /\ objectCells' = composed.objectCells
              /\ gridCall'.threw = composed.threw
              /\ ~Tracked(o) => /\ cells' = inserted.cells
                                /\ objectCells' = inserted.objectCells]_vars

\* C18 witness: updateObject has moved a tracked object to another cell, and
\* the cell it was in no longer holds it.
UpdateIsRemoveThenInsertWitness ==
    /\ gridCall.op = "updateObject"
    /\ gridCall.prior # Undefined
    /\ Tracked(gridCall.object)
    /\ objectCells[gridCall.object] # gridCall.prior
    /\ gridCall.object \notin Range(cells[gridCall.prior])

\* C19: removeObject of a tracked object deletes it from the cell set that
\* objectCells records for it and from objectCells, and changes the
\* membership of no other object; of an untracked object it leaves the grid
\* as it is.
RemoveObjectFrame ==
    [][gridCall'.op = "removeObject" =>
          LET o == gridCall'.object
          IN  /\ \A other \in Objects \ {o} :
                     /\ objectCells'[other] = objectCells[other]
                     /\ \A i \in DOMAIN cells :
                            other \in Range(cells'[i]) <=> other \in Range(cells[i])
              /\ DOMAIN cells' = DOMAIN cells
              /\ IF Tracked(o)
                 THEN /\ o \notin Range(cells'[objectCells[o]])
                      /\ objectCells'[o] = Undefined
                      /\ \A i \in DOMAIN cells \ {objectCells[o]} : cells'[i] = cells[i]
                 ELSE /\ cells' = cells
                      /\ objectCells' = objectCells]_vars

\* C19 witness: removeObject was called on a tracked object whose cell held
\* another object too, and that cell still holds the other one.
RemoveObjectFrameWitness ==
    /\ gridCall.op = "removeObject"
    /\ gridCall.prior # Undefined
    /\ ~Tracked(gridCall.object)
    /\ gridCall.object \notin Range(cells[gridCall.prior])
    /\ \E other \in Objects \ {gridCall.object} :
           /\ objectCells[other] = gridCall.prior
           /\ other \in Range(cells[gridCall.prior])

----------------------------------------------------------------------------
(* The resolver: claims C2, C3, C4, C8, C9, C10, C17, under Spec *)

\* How far below the radius a distance may fall through the rounding of the
\* square root and of the unit vector, in model units.
Tolerance == 1

Called == call.op = "checkCollisions"

\* The square of the horizontal distance from position p to the box of a
\* collider (0 inside the box and on its surface).
BoxDistanceSquared(p, collider) ==
    LET ex == Max(0, Abs(p.x - collider.position.x) - collider.size.x \div 2)
        ez == Max(0, Abs(p.z - collider.position.z) - collider.size.z \div 2)
    IN  ex * ex + ez * ez

\* The one registered collider is the one that was tested.
SingleColliderTested == Called /\ Len(colliders) = 1 /\ call.checked = colliders

\* C2: with a single box wall collider, whatever position is proposed, the
\* position checkCollisions returns is at horizontal distance at least
\* playerRadius (less the tolerance) from the box.
NoPenetration ==
    SingleColliderTested =>
        BoxDistanceSquared(call.ret, colliders[1]) >=
            (playerRadius - Tolerance) * (playerRadius - Tolerance)

\* C2 witness: the player, a quarter unit into the radius of the box of size
\* (2, 2) on the way from (0, 3) to (0, 0), is put back at distance radius.
NoPenetrationWitness ==
    /\ SingleColliderTested
    /\ colliders[1].mesh = "wallA"
    /\ proposedPosition.x = 0 /\ proposedPosition.z = 1250
    /\ call.ret.x = 0 /\ call.ret.z = 1500

\* C3 as claimed: the Y of the returned position is currentPosition.y in
\* every state of the resolver, with or without a player collider.
YPassthrough == Called => call.ret.y = playerPosition.y

\* C3 as amended: with a player collider the Y of the returned position is
\* currentPosition.y, whatever proposedPosition.y is and whatever was done to
\* X and Z; without one it is proposedPosition.y.
YPassthroughWithCollider ==
    Called => call.ret.y = (IF playerCollider # Null THEN playerPosition.y
                                                     ELSE proposedPosition.y)

\* C3 witness: a call that moved X or Z, with proposedPosition.y different
\* from currentPosition.y.
YPassthroughWitness ==
    /\ Called
    /\ playerCollider # Null
    /\ proposedPosition.y # playerPosition.y
    /\ (call.ret.x # proposedPosition.x \/ call.ret.z # proposedPosition.z)
    /\ call.ret.y = playerPosition.y

\* C4: after clear() on a system that was used for a level, and the player
\* collider and wall colliders given again, checkCollisions returns what a
\* newly constructed CollisionSystem given the same calls returns.
ClearResetsFully == (Called /\ phase = "cleared") => call.ret = call.retFresh

\* C8: proposed at the centre (0, 0) of the box of size (4, 2), the player is
\* moved along Z only, to boxMin.z - radius, the first found of the two
\* equally near sides.
CentreBox == [position |-> MeshPosition("wallB"), size |-> MeshSize("wallB"), mesh |-> "wallB"]

AtCentreOfWideBox ==
    /\ SingleColliderTested
    /\ colliders[1] = CentreBox
    /\ proposedPosition.x = CentreBox.position.x
    /\ proposedPosition.z = CentreBox.position.z

AxisEjection ==
    AtCentreOfWideBox =>
        /\ call.ret.x = proposedPosition.x
        /\ call.ret.z = CentreBox.position.z - CentreBox.size.z \div 2 - playerRadius

\* C8 witness: that call was made and returned (0, -1.5).
AxisEjectionWitness == AtCentreOfWideBox /\ call.ret.x = 0 /\ call.ret.z = -1500

\* The proposed position is at horizontal distance >= radius from every wall
\* collider.
ClearOfAllColliders ==
    \A i \in 1..Len(colliders) :
        BoxDistanceSquared(proposedPosition, colliders[i]) >= playerRadius * playerRadius

\* C9 as claimed: a proposed position at distance >= radius from every wall
\* collider is returned with all three coordinates unmodified.
NonOverlapUnmodified == (Called /\ ClearOfAllColliders) => call.ret = proposedPosition

\* C9 as amended: it is returned with X and Z unmodified, with or without a
\* grid; its Y is currentPosition.y when a player collider exists.
NonOverlapKeepsXZ ==
    (Called /\ ClearOfAllColliders) =>
        /\ call.ret.x = proposedPosition.x
        /\ call.ret.z = proposedPosition.z
        /\ call.ret.y = (IF playerCollider # Null THEN playerPosition.y
                                                  ELSE proposedPosition.y)

\* C9 witness: a collider was tested with the proposed position exactly at
\* distance radius from it, and the call returned the proposed X and Z.
NonOverlapWitness ==
    /\ Called
    /\ ClearOfAllColliders
    /\ call.checked # <<>>
    /\ \E i \in 1..Len(colliders) :
           BoxDistanceSquared(proposedPosition, colliders[i]) = playerRadius * playerRadius
    /\ call.ret.x = proposedPosition.x /\ call.ret.z = proposedPosition.z

\* C10: with no player collider (before the first createPlayerCollider or
\* after clear()) checkCollisions returns proposedPosition unchanged, whatever
\* colliders are registered.
NoPlayerPassThrough == (Called /\ playerCollider = Null) => call.ret = proposedPosition

\* C10 witness: a call without a player collider, with a wall collider
\* registered that the proposed position lies inside.
NoPlayerPassThroughWitness ==
    /\ Called
    /\ playerCollider = Null
    /\ \E i \in 1..Len(colliders) : BoxDistanceSquared(proposedPosition, colliders[i]) = 0
    /\ call.ret = proposedPosition

\* C17: checkCollisions does not change the attached grid: after the call
\* every cell set and the objectCells map are what they were before it.
GridUntouchedByCheck ==
    [][call'.op = "checkCollisions" =>
          /\ cells' = cells
          /\ objectCells' = objectCells]_vars

\* C17 witness: a call with a player collider and an attached grid that holds
\* a wall, in which a collider was tested.
GridUntouchedByCheckWitness ==
    /\ Called
    /\ playerCollider # Null
    /\ spatialGrid # Null
    /\ call.checked # <<>>
    /\ \E o \in Objects : Tracked(o) /\ o \in Range(cells[objectCells[o]])

----------------------------------------------------------------------------
(* The application: claims C12, C13, C14, C15, C16, C20, under SpecApp *)

\* The loadLevel call that returned last, and whether it failed.
LastFinished == loads[finished[Len(finished)]]

LastLoadFailed == finished # <<>> /\ LastFinished.stage = "failed"

\* C12: when a level load completes, also one that was started while an
\* earlier load was still waiting for its fetch, the collider list holds
\* the colliders of the meshes of the level that has just loaded, each once
\* and no other.
CollidersOfLoadedLevel ==
    [][(Len(finished') > Len(finished) /\ loads'[finished'[Len(finished')]].stage = "loaded")
          => LET meshes == LevelMeshes(currentLevel')
             IN  /\ Len(colliders') = Len(meshes)
                 /\ \A k \in 1..Len(meshes) : colliders'[k].mesh = meshes[k].mesh]_vars

\* k times the calls of one physics step.
StepCalls(k) ==
    [n \in 1..(2 * k) |-> IF n % 2 = 1 THEN "checkCollisions" ELSE "updatePlayerPosition"]

\* C13: on every fixed physics step the controller calls checkCollisions
\* once and then updatePlayerPosition; no step skips them.
EveryStepResolves == frame.ran => frame.calls = StepCalls(frame.steps)

\* C13, amended: so it is on every step run while the pointer is locked, and
\* the resolver's player collider then stands where checkCollisions put the
\* controller; with the pointer not locked a step calls neither.
StepResolvesWhenLocked ==
    frame.ran =>
        /\ frame.calls = (IF frame.locked THEN StepCalls(frame.steps) ELSE <<>>)
        /\ (frame.locked /\ frame.steps > 0 /\ playerCollider # Null) =>
               /\ playerCollider.position.x = translation.x
               /\ playerCollider.position.z = translation.z

\* C13 witness: a frame of several steps with the pointer locked and a
\* player collider, every step having made the two calls.
StepResolvesWhenLockedWitness ==
    /\ frame.ran
    /\ frame.locked
    /\ frame.steps >= 2
    /\ playerCollider # Null
    /\ frame.calls = StepCalls(frame.steps)
    /\ translation # LevelStart(currentLevel)

\* C14: a frame runs as many physics steps as there are whole fixed steps in
\* the accumulator plus the time since the frame before, leaves accumulator
\* plus that time less the steps run, and leaves it in [0, fixedTimeStep).
AccumulatorKeepsAllTime ==
    frame.ran =>
        /\ frame.steps = (frame.accumulatorBefore + frame.delta) \div fixedTimeStep
        /\ frame.accumulatorAfter =
               frame.accumulatorBefore + frame.delta - frame.steps * fixedTimeStep
        /\ frame.accumulatorAfter >= 0
        /\ frame.accumulatorAfter < fixedTimeStep

\* C14, amended: the same with the time since the frame before cut to 0.1 s.
AccumulatorKeepsCappedTime ==
    frame.ran =>
        LET elapsed == Min(frame.delta, maxFrameTime)
        IN  /\ frame.steps = (frame.accumulatorBefore + elapsed) \div fixedTimeStep
            /\ frame.accumulatorAfter =
                   frame.accumulatorBefore + elapsed - frame.steps * fixedTimeStep
            /\ frame.accumulatorAfter >= 0
            /\ frame.accumulatorAfter < fixedTimeStep
            /\ timeAccumulator = frame.accumulatorAfter

\* C14 witness: a frame that came after a pause longer than 0.1 s, found
\* the accumulator half full, and ran the six steps of 0.1 s.
AccumulatorKeepsCappedTimeWitness ==
    /\ frame.ran
    /\ frame.delta > maxFrameTime
    /\ frame.accumulatorBefore > 0
    /\ frame.steps = maxFrameTime \div fixedTimeStep
    /\ frame.accumulatorAfter = frame.accumulatorBefore

\* C15: on a level change clear() is called on the spatial hash grid and on
\* the collision resolver of the old level before the new level is built.
TeardownClearsBoth ==
    \A i \in DOMAIN loads :
        (loads[i].replaced # NoLevel /\ loads[i].stage = "loaded") =>
            {"collisionSystem", "spatialGrid"} \subseteq Range(loads[i].cleared)

\* C15, amended: a loadLevel called while a level is loaded calls clear() on
\* the collision resolver, before it fetches and builds the new level, and
\* on nothing else; one called while no level is loaded calls no clear().
TeardownClearsResolver ==
    \A i \in DOMAIN loads :
        loads[i].cleared =
            (IF loads[i].replaced # NoLevel THEN <<"collisionSystem">> ELSE <<>>)

\* C15 witness: a level has been loaded in place of another, the resolver
\* cleared when the load was called, and a new grid attached.
TeardownClearsResolverWitness ==
    \E i \in DOMAIN loads :
        /\ loads[i].replaced # NoLevel
        /\ loads[i].stage = "loaded"
        /\ loads[i].cleared = <<"collisionSystem">>
        /\ finished[Len(finished)] = i
        /\ spatialGrid = [grid |-> loads[i].file]

\* Whether no level has loaded since call i was made.
NoneLoadedSince(i) ==
    \A n \in 1..Len(finished) :
        loads[finished[n]].stage = "loaded" => n <= loads[i].calledAfter

\* A level change has failed and no level has loaded since it was called.
OnFailedChange ==
    /\ LastLoadFailed
    /\ LastFinished.replaced # NoLevel
    /\ NoneLoadedSince(finished[Len(finished)])

\* C16: once a level load has failed, on the first load or on a level
\* change, no physics step calls checkCollisions or updatePlayerPosition
\* (no level having loaded since).
NoStepAfterFailedLoad ==
    ~(/\ LastLoadFailed
      /\ NoneLoadedSince(finished[Len(finished)])
      /\ frame.ran
      /\ frame.calls # <<>>)

\* C16, amended: no animation frame is requested or run before some level
\* has loaded, so after a failed first load no step runs at all; after a
\* failed level change the steps go on, on the resolver that loadLevel
\* cleared: without colliders and without a player collider.
LoopStartsAfterALoad ==
    /\ (rafPending > 0 \/ frame.ran \/ previousRAF # NoTime) =>
           \E i \in DOMAIN loads : loads[i].stage = "loaded"
    /\ OnFailedChange => (colliders = <<>> /\ playerCollider = Null)

\* C16 witness: a level change has failed, and a frame after it has run
\* physics steps that called the resolver, which loadLevel had cleared.
LoopStartsAfterALoadWitness ==
    /\ OnFailedChange
    /\ frame.ran
    /\ frame.steps > 0
    /\ frame.calls = StepCalls(frame.steps)
    /\ playerCollider = Null
    /\ colliders = <<>>

\* C20: console.error is reached only when a level load fails: with the
\* level loaded and the loop running nothing is written.
ConsoleErrorOnlyOnFailedLoad ==
    /\ console # <<>> => \E i \in DOMAIN loads : loads[i].stage = "failed"
    /\ Range(console) \subseteq {"Error loading level:", "Failed to load level:"}

\* C20 witness: the level of the constructor has loaded, frames have run
\* physics steps for a while, and nothing has been written.
ConsoleErrorOnlyOnFailedLoadWitness ==
    /\ loads[1].stage = "loaded"
    /\ \A i \in DOMAIN loads : loads[i].stage # "failed"
    /\ frame.ran
    /\ frame.steps > 0
    /\ previousRAF >= maxFrameTime
    /\ console = <<>>

----------------------------------------------------------------------------
(* The resolver: claims C21, C22, C23, C24, C25, C26, C29, under Spec *)

\* The vector from the point of the collider's box closest to p, to p.
FromClosestPoint(p, collider) ==
    LET minX == collider.position.x - collider.size.x \div 2
        maxX == collider.position.x + collider.size.x \div 2
        minZ == collider.position.z - collider.size.z \div 2
        maxZ == collider.position.z + collider.size.z \div 2
    IN  [x |-> IF p.x < minX THEN p.x - minX ELSE IF p.x > maxX THEN p.x - maxX ELSE 0,
         z |-> IF p.z < minZ THEN p.z - minZ ELSE IF p.z > maxZ THEN p.z - maxZ ELSE 0]

\* The proposed position is outside the one collider's box and nearer to it
\* than the radius.
GrazingSingleCollider ==
    /\ SingleColliderTested
    /\ BoxDistanceSquared(proposedPosition, colliders[1]) > 0
    /\ BoxDistanceSquared(proposedPosition, colliders[1]) < playerRadius * playerRadius

\* C21: with the closest point of the collider's box at distance d from the
\* proposed position, 0 < d < radius, the position is moved along the vector
\* from the closest point to the circle centre, and ends at distance radius
\* from the box (to the tolerance of the rounding); with d >= radius X and Z
\* are returned as proposed.
PushOutToRadius ==
    /\ GrazingSingleCollider =>
           LET from == FromClosestPoint(proposedPosition, colliders[1])
               moveX == call.ret.x - proposedPosition.x
               moveZ == call.ret.z - proposedPosition.z
               after == BoxDistanceSquared(call.ret, colliders[1])
           IN  /\ moveX * from.x >= 0
               /\ moveZ * from.z >= 0
               /\ Abs(moveX * from.z - moveZ * from.x) <=
                      Tolerance * (Abs(from.x) + Abs(from.z))
               /\ after >= (playerRadius - Tolerance) * (playerRadius - Tolerance)
               /\ after <= (playerRadius + Tolerance) * (playerRadius + Tolerance)
    /\ (/\ SingleColliderTested
        /\ BoxDistanceSquared(proposedPosition, colliders[1]) >= playerRadius * playerRadius) =>
           /\ call.ret.x = proposedPosition.x
           /\ call.ret.z = proposedPosition.z

\* C21 witness: proposed beside the corner (1, 1) of wallA, at (1.41, 1.25),
\* the player is moved away from the corner along both axes.
PushOutToRadiusWitness ==
    /\ GrazingSingleCollider
    /\ colliders[1].mesh = "wallA"
    /\ proposedPosition.x = 1410 /\ proposedPosition.z = 1250
    /\ call.ret.x > proposedPosition.x
    /\ call.ret.z > proposedPosition.z

\* The proposed position is inside the one collider's box or on its surface.
InsideSingleCollider ==
    /\ SingleColliderTested
    /\ BoxDistanceSquared(proposedPosition, colliders[1]) = 0

\* C22: with the circle centre inside the box or on its surface, of the
\* distances to the sides left (minX), right (maxX), near (minZ), far (maxZ)
\* the smallest decides, the first in that order among equals: the one axis
\* of that side is set to the side's plane, the radius beyond it, and the
\* other horizontal axis is returned as proposed.
NearestSideEjection ==
    InsideSingleCollider =>
        LET box == colliders[1]
            minX == box.position.x - box.size.x \div 2
            maxX == box.position.x + box.size.x \div 2
            minZ == box.position.z - box.size.z \div 2
            maxZ == box.position.z + box.size.z \div 2
            left == proposedPosition.x - minX
            right == maxX - proposedPosition.x
            near == proposedPosition.z - minZ
            far == maxZ - proposedPosition.z
        IN  /\ (left <= right /\ left <= near /\ left <= far) =>
                   /\ call.ret.x = minX - playerRadius
                   /\ call.ret.z = proposedPosition.z
            /\ (right < left /\ right <= near /\ right <= far) =>
                   /\ call.ret.x = maxX + playerRadius
                   /\ call.ret.z = proposedPosition.z
            /\ (near < left /\ near < right /\ near <= far) =>
                   /\ call.ret.x = proposedPosition.x
                   /\ call.ret.z = minZ - playerRadius
            /\ (far < left /\ far < right /\ far < near) =>
                   /\ call.ret.x = proposedPosition.x
                   /\ call.ret.z = maxZ + playerRadius

\* C22 witness: proposed at the centre of wallA, equally far from its four
\* sides, the player is put the radius beyond the left side, Z as proposed.
NearestSideEjectionWitness ==
    /\ InsideSingleCollider
    /\ colliders[1].mesh = "wallA"
    /\ proposedPosition.x = 0 /\ proposedPosition.z = 0
    /\ call.ret.x = -1500 /\ call.ret.z = 0

RECURSIVE AdjustedAfter(_)
\* The position after the first k of the tested colliders have each
\* corrected the position left by the ones before.
AdjustedAfter(k) ==
    IF k = 0
    THEN proposedPosition
    ELSE ResolveCollider(AdjustedAfter(k - 1), call.checked[k])

\* C23: the colliders correct the position one at a time in the order they
\* are iterated, each tested against the position the earlier ones have
\* left: X and Z returned are those of the left fold of the single-collider
\* correction over the colliders tested.
SequentialCorrection ==
    (Called /\ playerCollider # Null) =>
        /\ call.ret.x = AdjustedAfter(Len(call.checked)).x
        /\ call.ret.z = AdjustedAfter(Len(call.checked)).z

\* C23 witness: wallA then wallB tested, proposed at their common centre:
\* wallA puts the player at x = -1.5, inside wallB still, which puts it at
\* x = -2.5; wallB first would have put it at z = -1.5, clear of wallA.
SequentialCorrectionWitness ==
    /\ Called
    /\ playerCollider # Null
    /\ Len(call.checked) = 2
    /\ call.checked[1].mesh = "wallA"
    /\ call.checked[2].mesh = "wallB"
    /\ proposedPosition.x = 0 /\ proposedPosition.z = 0
    /\ AdjustedAfter(1).x = -1500
    /\ call.ret.x = -2500 /\ call.ret.z = 0
    /\ ResolveCollider(ResolveCollider(proposedPosition, call.checked[2]),
                       call.checked[1]).z = -1500

\* The meshes findNearbyObjects(proposedPosition, maxCheckDistance) returns
\* from the attached grid.
NearbyMeshes == Range(findNearbyObjects(Grid, proposedPosition, maxCheckDistance))

\* C24: with a grid attached the colliders tested are the wall colliders
\* whose mesh findNearbyObjects(proposedPosition, maxCheckDistance) returns,
\* each once, grid objects without a collider being passed over; without a
\* grid they are the collider list, whole and in its order.
TestedColliders ==
    (Called /\ playerCollider # Null) =>
        IF spatialGrid # Null
        THEN /\ Range(call.checked) =
                    {colliders[i] : i \in {j \in 1..Len(colliders) :
                                              colliders[j].mesh \in NearbyMeshes}}
             /\ \A i, j \in 1..Len(call.checked) :
                    call.checked[i] = call.checked[j] => i = j
        ELSE call.checked = colliders

\* C24 witness: wallA and wallB are registered, the grid holds wallA and
\* wallC; of the colliders wallA alone is tested.
TestedCollidersWitness ==
    /\ Called
    /\ playerCollider # Null
    /\ spatialGrid # Null
    /\ Len(colliders) = 2
    /\ colliders[1].mesh = "wallA"
    /\ colliders[2].mesh = "wallB"
    /\ NearbyMeshes = {"wallA", "wallC"}
    /\ Len(call.checked) = 1
    /\ call.checked[1] = colliders[1]

\* C25 as claimed: after updatePlayerPosition(position) the player
\* collider's position is the given position in every state of the resolver,
\* and nothing else has changed.
UpdateOverwritesAlways ==
    [][call'.op = "updatePlayerPosition" =>
          /\ playerCollider' # Null
          /\ playerCollider'.position = call'.ret
          /\ UNCHANGED <<colliders, spatialGrid, cells, objectCells>>]_vars

\* C25 as amended: with a player collider, after updatePlayerPosition(position)
\* its position is the given position, whatever it was, and its radius and
\* height, the wall colliders, the attached grid and the grid's content are
\* as before; without a player collider the call changes nothing.
UpdateOverwritesCollider ==
    [][call'.op = "updatePlayerPosition" =>
          /\ IF playerCollider # Null
             THEN playerCollider' = [playerCollider EXCEPT !.position = call'.ret]
             ELSE playerCollider' = Null
          /\ UNCHANGED <<colliders, spatialGrid, cells, objectCells>>]_vars

\* C25 witness: updatePlayerPosition has put the collider made at the start
\* position (0, 1.8, 3) at (0, 1.8, 1.5), with wall colliders registered.
UpdateOverwritesColliderWitness ==
    /\ call.op = "updatePlayerPosition"
    /\ call.ret = Vector3(0, 1800, 1500)
    /\ playerCollider # Null
    /\ playerCollider.position = call.ret
    /\ playerCollider.radius = playerRadius
    /\ colliders # <<>>

\* Every wall collider's mesh is in the grid, inserted at the collider's
\* centre.
AllCollidersInGrid ==
    \A i \in 1..Len(colliders) :
        /\ Tracked(colliders[i].mesh)
        /\ insertedAt[colliders[i].mesh] =
               Point(colliders[i].position.x, colliders[i].position.z)

\* C26: with every wall collider's mesh inserted in the grid at the
\* collider's centre, checkCollisions with the grid attached returns the
\* position that it returns with no grid attached.
GridIsPureAcceleration ==
    (Called /\ playerCollider # Null /\ spatialGrid # Null /\ AllCollidersInGrid) =>
        call.ret = checkCollisions([System EXCEPT !.spatialGrid = Null], Grid,
                                   playerPosition, proposedPosition).ret

\* What checkCollisions returns when it is given the position it returned as
\* the proposed one, the current position being the same.
ReturnedAgain ==
    checkCollisions(System, Grid, playerPosition, call.ret).ret

----------------------------------------------------------------------------
(* The application: claims C27, C28, under SpecApp *)

\* C27: whatever the order of loadLevel calls, load completions and frame
\* callbacks, at most one requestAnimationFrame callback is pending: there is
\* one animation loop at most.
SingleAnimationLoop == rafPending <= 1

\* Every wall collider's mesh is tracked by the grid, and every object the
\* grid tracks has a wall collider.
CollidersAreGridObjects ==
    /\ \A i \in 1..Len(colliders) : Tracked(colliders[i].mesh)
    /\ \A o \in Objects :
           Tracked(o) => \E i \in 1..Len(colliders) : colliders[i].mesh = o

\* C28: when a level load completes, the wall colliders and the attached
\* grid describe the same objects.
ResolverMatchesGrid ==
    [][(Len(finished') > Len(finished) /\ loads'[finished'[Len(finished')]].stage = "loaded")
          => CollidersAreGridObjects']_vars

----------------------------------------------------------------------------
(* The resource manager: claim C30, under SpecCache *)

\* The cache of a type.
CacheOf(type) == ResourceMap(Manager, type)

\* Every construction has yielded the one instance.
OneInstance ==
    /\ managers # <<>> => instance # Undefined
    /\ \A i \in 1..Len(managers) : managers[i] = instance

\* After dispose() the three caches are empty.
EmptyAfterDispose ==
    cacheCall.op = "dispose" =>
        geometries = EmptyCache /\ materials = EmptyCache /\ textures = EmptyCache

====
